---------------------------- MODULE Spec2Model ----------------------------
(***************************************************************************)
(* A model of the Apriori frequent-itemset miner (src/apriori.py) and of   *)
(* the association-rule generator (src/association.py, src/apriori.py).    *)
(*                                                                         *)
(* Itemsets are Python lists of ints: sequences of naturals.  A Counter is *)
(* a dict that keeps its keys in insertion order: a sequence of            *)
(* <<key, count>> pairs.  The file is the sequence of its lines, each line *)
(* already parsed to the set of its items ({int(n) for n in ...}).         *)
(* A threshold (minsup, minconf) is a rational <<num, den>> with den > 0;  *)
(* count / n > minsup is decided exactly, by cross-multiplication, which   *)
(* is what IEEE division gives for the small counts of the model.          *)
(***************************************************************************)
EXTENDS Integers, Sequences, FiniteSets

\* ------------------------------------------------------------- bounds
\* The items of a file are the identifiers 1..NumItems.
NumItems == 3
\* A file has at most MaxTx lines.
MaxTx == 2
\* candidate_gen is applied, on its own, to lists of at most MaxPrev itemsets
\* over the identifiers 1..GenItems.
GenItems == 4
MaxPrev == 4
\* ap_genRules is called with at most MaxConseq consequents in H_m.
MaxConseq == 2

Items == 1..NumItems

\* The thresholds a caller passes: -1/4, 1/4, 1/3, 1/2, 1 and 5/4.
Thresholds == {<<0 - 1, 4>>, <<1, 4>>, <<1, 3>>, <<1, 2>>, <<1, 1>>, <<5, 4>>}

VARIABLES
    file,          \* the lines of the transaction file, each a set of items
    minsup,        \* apriori's minsup, <<num, den>>
    pc,            \* the position of the running function
    n,             \* the line count init_pass returns
    F_k_minus_1,   \* apriori's F_k_minus_1 (candidate_gen's argument)
    F_k,           \* apriori's F_k, the accumulated result
    C_k,           \* the list candidate_gen returned
    count,         \* the Counter of the current scan
    level,         \* the size k of the itemsets of F_k_minus_1
    scans,         \* how many times the file has been opened and read
    f_k,           \* ap_genRules' f_k
    H_m,           \* ap_genRules' H_m
    H_m_plus_1,    \* ap_genRules' H_m_plus_1
    counts,        \* ap_genRules' Counter
    minconf,       \* ap_genRules' minconf, <<num, den>>
    emitted,       \* the consequents ap_genRules has printed as confident
    fault          \* the exception that ended the call, or "none"

vars == <<file, minsup, pc, n, F_k_minus_1, F_k, C_k, count, level, scans,
          f_k, H_m, H_m_plus_1, counts, minconf, emitted, fault>>

\* ------------------------------------------------------------ helpers
Range(s) == {s[i] : i \in 1..Len(s)}

Last(s) == s[Len(s)]

\* s[:-1]
Front(s) == SubSeq(s, 1, Len(s) - 1)

Min(S) == CHOOSE x \in S : \A y \in S : x <= y

\* The members of a set of numbers in increasing order.
RECURSIVE Ascending(_)
Ascending(S) == IF S = {} THEN <<>> ELSE <<Min(S)>> \o Ascending(S \ {Min(S)})

\* Iteration order of a Python set of small non-negative ints: ascending
\* (hash(i) = i, and the items of the model are below the table size).
SetIter(S) == Ascending(S)

\* count / n > minsup, for a count out of n lines.
RatioAbove(cnt, total, thr) == cnt * thr[2] > thr[1] * total

\* counter[key] += 1
CounterIncr(counter, key) ==
    IF \E i \in 1..Len(counter) : counter[i][1] = key
    THEN [i \in 1..Len(counter) |->
            IF counter[i][1] = key THEN <<key, counter[i][2] + 1>> ELSE counter[i]]
    ELSE Append(counter, <<key, 1>>)

\* counter[key], 0 for a missing key
CounterGet(counter, key) ==
    IF \E i \in 1..Len(counter) : counter[i][1] = key
    THEN (CHOOSE p \in Range(counter) : p[1] = key)[2]
    ELSE 0

RECURSIVE CounterIncrAll(_, _)
CounterIncrAll(counter, keys) ==
    IF keys = <<>> THEN counter
    ELSE CounterIncrAll(CounterIncr(counter, keys[1]), Tail(keys))

\* [f(item) for (item, count) in counter.items() if count / n > minsup]
RECURSIVE FrequentKeys(_, _, _)
FrequentKeys(counter, total, thr) ==
    IF counter = <<>> THEN <<>>
    ELSE (IF RatioAbove(counter[1][2], total, thr) THEN <<counter[1][1]>> ELSE <<>>)
         \o FrequentKeys(Tail(counter), total, thr)

\* ---------------------------------------------------------- init_pass
RECURSIVE SingletonSeq(_)
SingletonSeq(s) == IF s = <<>> THEN <<>> ELSE <<<<s[1]>>>> \o SingletonSeq(Tail(s))

\* The Counter after the lines from i on have been read.
RECURSIVE InitScan(_, _, _)
InitScan(lines, i, counter) ==
    IF i > Len(lines) THEN counter
    ELSE InitScan(lines, i + 1,
                  CounterIncrAll(counter, SingletonSeq(SetIter(lines[i]))))

\* init_pass(file, minsup): <<the frequent one-item lists, n>>
init_pass(lines, thr) ==
    <<FrequentKeys(InitScan(lines, 1, <<>>), Len(lines), thr), Len(lines)>>

\* ------------------------------------------------------ candidate_gen
\* JoinPair without the choice of the larger last item: [1, 2, 4] + [1, 2, 3]
\* becomes [1, 2, 4, 3].
JoinPairAppendSecond(s_1, s_2) ==
    IF Front(s_1) = Front(s_2) /\ Last(s_1) # Last(s_2)
    THEN <<s_1 \o <<Last(s_2)>>>>
    ELSE <<>>

\* JoinPair with the comparison reversed: the smaller of the two last items
\* is appended to the itemset that ends in the larger one.
JoinPairAppendSmaller(s_1, s_2) ==
    IF Front(s_1) = Front(s_2) /\ Last(s_1) # Last(s_2)
    THEN IF Last(s_1) < Last(s_2)
         THEN <<s_2 \o <<Last(s_1)>>>>
         ELSE <<s_1 \o <<Last(s_2)>>>>
    ELSE <<>>

\* The join of one pair (s_1, s_2) of itertools.combinations(F_k_minus_1, 2).
JoinPair(s_1, s_2) ==
    IF Front(s_1) = Front(s_2) /\ Last(s_1) # Last(s_2)
    THEN IF Last(s_1) > Last(s_2)
         THEN <<s_2 \o <<Last(s_1)>>>>
         ELSE <<s_1 \o <<Last(s_2)>>>>
    ELSE <<>>

\* The join step: the pairs (i, j), i < j, in the order of combinations().
RECURSIVE JoinStep(_, _, _)
JoinStep(F, i, j) ==
    IF i >= Len(F) THEN <<>>
    ELSE IF j > Len(F) THEN JoinStep(F, i + 1, i + 2)
    ELSE JoinPair(F[i], F[j]) \o JoinStep(F, i, j + 1)

\* c with its d-th item deleted: one of itertools.combinations(c, len(c) - 1)
DropAt(c, d) == SubSeq(c, 1, d - 1) \o SubSeq(c, d + 1, Len(c))

\* Whether the inner loop of the pruning step reaches C_k.remove(c_k).
HasAbsentSubset(c, F) ==
    /\ Len(c) > 1
    /\ \E d \in 1..Len(c) : DropAt(c, d) \notin Range(F)

\* list.remove(x): the first item equal to x is deleted.
RemoveFirst(C, x) ==
    LET i == Min({j \in 1..Len(C) : C[j] = x})
    IN  SubSeq(C, 1, i - 1) \o SubSeq(C, i + 1, Len(C))

\* Where the list iterator stands after the item at index i: a removal
\* during the iteration shifts the rest of the list under the iterator.
NextIndex(i) == i + 1

\* The pruning step: "for c_k in C_k" over a list the body removes from.
RECURSIVE PruneStep(_, _, _)
PruneStep(C, i, F) ==
    IF i > Len(C) THEN C
    ELSE IF HasAbsentSubset(C[i], F)
         THEN PruneStep(RemoveFirst(C, C[i]), NextIndex(i), F)
         ELSE PruneStep(C, NextIndex(i), F)

candidate_gen(F) == PruneStep(JoinStep(F, 1, 2), 1, F)

\* ------------------------------------------------------------ apriori
\* The candidates of C counted for one line, in the order of the inner loop.
RECURSIVE LineHits(_, _)
LineHits(C, check_set) ==
    IF C = <<>> THEN <<>>
    ELSE (IF Range(C[1]) \subseteq check_set THEN <<C[1]>> ELSE <<>>)
         \o LineHits(Tail(C), check_set)

\* The Counter of a level's scan, after the lines from i on have been read.
RECURSIVE LevelScan(_, _, _, _)
LevelScan(lines, i, C, counter) ==
    IF i > Len(lines) THEN counter
    ELSE LevelScan(lines, i + 1, C, CounterIncrAll(counter, LineHits(C, lines[i])))

\* Accumulate as "F_k = F_k_minus_1": the earlier levels are lost.
AccumulateReplace(F, F_new) == F_new

\* Accumulate as "F_k = F_k_minus_1 + F_k": the new level comes first.
AccumulatePrepend(F, F_new) == F_new \o F

\* F_k += F_k_minus_1
Accumulate(F, F_new) == F \o F_new

\* FileOpens with the scan guarded by "if C_k".
FileOpensIfCandidates(C) == IF C = <<>> THEN 0 ELSE 1

\* How often one pass of the while loop opens and reads the file, whatever
\* candidate_gen returned: "with open(file) as f" is not guarded by C_k.
FileOpens(C) == 1

\* while F_k_minus_1:
LoopContinues(F) == F # <<>>

\* ------------------------------------------------------- ap_genRules
\* if H_m and f_k and len(f_k) > len(H_m[0]):
RulesGuard(f, H) == H # <<>> /\ f # <<>> /\ Len(f) > Len(H[1])

\* set(f_k).symmetric_difference(set(h_k_plus_1))
SymmetricDifference(A, B) == (A \ B) \cup (B \ A)

\* The keys one line adds to counts: f_k first, then the consequents.
RECURSIVE ConseqHits(_, _, _)
ConseqHits(f, H, check_set) ==
    IF H = <<>> THEN <<>>
    ELSE (IF SymmetricDifference(Range(f), Range(H[1])) \subseteq check_set
          THEN <<H[1]>> ELSE <<>>)
         \o ConseqHits(f, Tail(H), check_set)

RuleLineHits(f, H, check_set) ==
    (IF Range(f) \subseteq check_set THEN <<f>> ELSE <<>>) \o ConseqHits(f, H, check_set)

\* counts after the lines from i on have been read.
RECURSIVE RuleScan(_, _, _, _, _)
RuleScan(lines, i, f, H, counter) ==
    IF i > Len(lines) THEN counter
    ELSE RuleScan(lines, i + 1, f, H,
                  CounterIncrAll(counter, RuleLineHits(f, H, lines[i])))

\* What evaluating counts[tuple(f_k)] / counts[set(h_k_plus_1)] raises in the
\* first pass of "for h_m_plus_1 in H_m_plus_1": h_k_plus_1 is the variable of
\* the scan's inner loop, unbound when the file has no line; bound, set(...)
\* is unhashable and cannot key the Counter.
ConfidenceFault(lines) == IF lines = <<>> THEN "NameError" ELSE "TypeError"

\* --------------------------------------------------------- the inputs
\* The strictly increasing sequences of k items of U.
IncSeqs(U, k) == {Ascending(S) : S \in {T \in SUBSET U : Cardinality(T) = k}}

Itemsets(U) == UNION {IncSeqs(U, k) : k \in 1..Cardinality(U)}

\* The lists of at most m distinct k-itemsets over U, k fixed per list.
PrevLists(U, m) ==
    UNION {{F \in [1..l -> IncSeqs(U, k)] : \A i, j \in 1..l : i # j => F[i] # F[j]} :
           l \in 0..m, k \in 1..Cardinality(U)}

Files == UNION {[1..m -> SUBSET Items] : m \in 0..MaxTx}

\* -------------------------------------------------------------- apriori
aprioriVars == <<minsup, n, F_k_minus_1, F_k, C_k, count, level>>
rulesVars == <<f_k, H_m, H_m_plus_1, counts, minconf, emitted, fault>>

\* No call has been made yet.
Init ==
    /\ file = <<>>
    /\ minsup = <<1, 1>>
    /\ pc = "idle"
    /\ n = 0
    /\ F_k_minus_1 = <<>>
    /\ F_k = <<>>
    /\ C_k = <<>>
    /\ count = <<>>
    /\ level = 0
    /\ scans = 0
    /\ f_k = <<>>
    /\ H_m = <<>>
    /\ H_m_plus_1 = <<>>
    /\ counts = <<>>
    /\ minconf = <<1, 1>>
    /\ emitted = <<>>
    /\ fault = "none"

\* apriori(file, minsup) is called, with any file and any threshold: the
\* function checks neither.
AprioriCall ==
    /\ pc = "idle"
    /\ file' \in Files
    /\ minsup' \in Thresholds
    /\ pc' = "start"
    /\ UNCHANGED <<n, F_k_minus_1, F_k, C_k, count, level, scans, rulesVars>>

\* F_k_minus_1, n = init_pass(file, minsup); F_k = F_k_minus_1
InitPass ==
    /\ pc = "start"
    /\ F_k_minus_1' = init_pass(file, minsup)[1]
    /\ n' = init_pass(file, minsup)[2]
    /\ F_k' = F_k_minus_1'
    /\ level' = 1
    /\ scans' = scans + 1
    /\ pc' = "loop"
    /\ UNCHANGED <<file, minsup, C_k, count, rulesVars>>

\* while F_k_minus_1: count = Counter(); C_k = candidate_gen(F_k_minus_1)
LoopCandidateGen ==
    /\ pc = "loop"
    /\ LoopContinues(F_k_minus_1)
    /\ C_k' = candidate_gen(F_k_minus_1)
    /\ count' = <<>>
    /\ pc' = "scan"
    /\ UNCHANGED <<file, minsup, n, F_k_minus_1, F_k, level, scans, rulesVars>>

\* with open(file) as f: for line in f: for c_k in C_k: ...
LoopScan ==
    /\ pc = "scan"
    /\ count' = LevelScan(file, 1, C_k, <<>>)
    /\ scans' = scans + FileOpens(C_k)
    /\ pc' = "filter"
    /\ UNCHANGED <<file, minsup, n, F_k_minus_1, F_k, C_k, level, rulesVars>>

\* F_k_minus_1 = [[*item] for ... if count / n > minsup]; F_k += F_k_minus_1
LoopFilter ==
    /\ pc = "filter"
    /\ F_k_minus_1' = FrequentKeys(count, n, minsup)
    /\ F_k' = Accumulate(F_k, F_k_minus_1')
    /\ level' = level + 1
    /\ pc' = "loop"
    /\ UNCHANGED <<file, minsup, n, C_k, count, scans, rulesVars>>

\* return F_k
Return ==
    /\ pc = "loop"
    /\ ~LoopContinues(F_k_minus_1)
    /\ pc' = "done"
    /\ UNCHANGED <<file, aprioriVars, scans, rulesVars>>

\* The steps of a call of apriori.
Run == InitPass \/ LoopCandidateGen \/ LoopScan \/ LoopFilter \/ Return

Next == AprioriCall \/ Run

Spec == Init /\ [][Next]_vars

\* A step of Run exists exactly at these positions: each step of Run changes
\* pc, so this is ENABLED <<Run>>_vars.
RunEnabled == pc \in {"start", "loop", "scan", "filter"}

\* The interpreter runs the single thread of a call until it returns: weak
\* fairness of Run, WF_vars(Run), with its ENABLED <<Run>>_vars written out
\* as RunEnabled.
FairSpec == Spec /\ ([]<>(~RunEnabled) \/ []<><<Run>>_vars)

\* -------------------------------------------- candidate_gen on its own
\* candidate_gen(F_k_minus_1) is called with a list of distinct, strictly
\* increasing itemsets of one size.
InitGen ==
    /\ F_k_minus_1 \in PrevLists(1..GenItems, MaxPrev)
    /\ pc = "gen_call"
    /\ file = <<>>
    /\ minsup = <<1, 1>>
    /\ n = 0
    /\ F_k = <<>>
    /\ C_k = <<>>
    /\ count = <<>>
    /\ level = 0
    /\ scans = 0
    /\ f_k = <<>>
    /\ H_m = <<>>
    /\ H_m_plus_1 = <<>>
    /\ counts = <<>>
    /\ minconf = <<1, 1>>
    /\ emitted = <<>>
    /\ fault = "none"

CandidateGenCall ==
    /\ pc = "gen_call"
    /\ C_k' = candidate_gen(F_k_minus_1)
    /\ pc' = "gen_done"
    /\ UNCHANGED <<file, minsup, n, F_k_minus_1, F_k, count, level, scans, rulesVars>>

NextGen == CandidateGenCall

SpecGen == InitGen /\ [][NextGen]_vars

\* ---------------------------------------------------------- ap_genRules
\* ap_genRules(f_k, H_m, n, minconf, file) is called.
InitRules ==
    /\ file \in Files
    /\ f_k \in Itemsets(Items) \cup {<<>>}
    /\ H_m \in PrevLists(Items, MaxConseq)
    /\ minconf \in Thresholds
    /\ pc = "rules_call"
    /\ n = Len(file)
    /\ minsup = <<1, 1>>
    /\ F_k_minus_1 = <<>>
    /\ F_k = <<>>
    /\ C_k = <<>>
    /\ count = <<>>
    /\ level = 0
    /\ scans = 0
    /\ H_m_plus_1 = <<>>
    /\ counts = <<>>
    /\ emitted = <<>>
    /\ fault = "none"

\* The guard fails: the call returns None.
RulesReturn ==
    /\ pc = "rules_call"
    /\ ~RulesGuard(f_k, H_m)
    /\ pc' = "rules_done"
    /\ UNCHANGED <<file, aprioriVars, scans, rulesVars>>

\* H_m_plus_1 = candidate_gen(H_m); counts = collections.Counter()
RulesGrow ==
    /\ pc = "rules_call"
    /\ RulesGuard(f_k, H_m)
    /\ H_m_plus_1' = candidate_gen(H_m)
    /\ counts' = <<>>
    /\ pc' = "rules_scan"
    /\ UNCHANGED <<file, aprioriVars, scans, f_k, H_m, minconf, emitted, fault>>

\* with open(file) as f: for line in f: ...
RulesScan ==
    /\ pc = "rules_scan"
    /\ counts' = RuleScan(file, 1, f_k, H_m_plus_1, <<>>)
    /\ scans' = scans + 1
    /\ pc' = "rules_conf"
    /\ UNCHANGED <<file, aprioriVars, f_k, H_m, H_m_plus_1, minconf, emitted, fault>>

\* for h_m_plus_1 in H_m_plus_1: the first pass raises.
RulesFault ==
    /\ pc = "rules_conf"
    /\ H_m_plus_1 # <<>>
    /\ fault' = ConfidenceFault(file)
    /\ pc' = "rules_fault"
    /\ UNCHANGED <<file, aprioriVars, scans, f_k, H_m, H_m_plus_1, counts, minconf,
                   emitted>>

\* The loop has nothing to pass over: ap_genRules(f_k, H_m_plus_1, ...)
RulesRecurse ==
    /\ pc = "rules_conf"
    /\ H_m_plus_1 = <<>>
    /\ H_m' = H_m_plus_1
    /\ pc' = "rules_call"
    /\ UNCHANGED <<file, aprioriVars, scans, f_k, H_m_plus_1, counts, minconf,
                   emitted, fault>>

NextRules == RulesReturn \/ RulesGrow \/ RulesScan \/ RulesFault \/ RulesRecurse

SpecRules == InitRules /\ [][NextRules]_vars

\* ------------------------------------------------------------ properties
\* The support count of itemset X: the lines of the file that contain it.
SupportCount(X) == Cardinality({i \in 1..Len(file) : Range(X) \subseteq file[i]})

\* The items that occur in the file.
ItemsOfFile == UNION Range(file)

\* count / n > minsup and count / n = minsup for the support count of X.
SupportAbove(X) == SupportCount(X) * minsup[2] > minsup[1] * Len(file)
SupportEqual(X) == SupportCount(X) * minsup[2] = minsup[1] * Len(file)

\* Whether a threshold lies in (0, 1].
ValidThreshold(thr) == thr[1] > 0 /\ thr[1] <= thr[2]

\* The sizes of the itemsets of a list.
Sizes(F) == {Len(F[i]) : i \in 1..Len(F)}

\* C1: when apriori returns, its result, as a set, is the set of all
\* non-empty itemsets (strictly increasing sequences of items of the file)
\* whose support ratio count/n exceeds minsup, for every file and every minsup.
C1_ResultIsFrequentSet ==
    pc = "done" => Range(F_k) = {X \in Itemsets(ItemsOfFile) : SupportAbove(X)}

\* The statement of C1 for the thresholds that are not negative: it holds.
FrequentSetWhenMinsupNotNegative ==
    (pc = "done" /\ minsup[1] >= 0)
        => Range(F_k) = {X \in Itemsets(ItemsOfFile) : SupportAbove(X)}

\* C2: when apriori returns, an itemset of any size whose count/n equals
\* minsup is not in the result, one whose count/n is greater than minsup is in
\* it, and n is the number of lines of the file, at every level.
C2_ThresholdBoundary ==
    /\ pc \notin {"idle", "start"} => n = Len(file)
    /\ pc = "done" =>
        \A X \in Itemsets(ItemsOfFile) :
            /\ SupportEqual(X) => X \notin Range(F_k)
            /\ SupportAbove(X) => X \in Range(F_k)

\* The statement of C2 for the thresholds that are not negative: it holds.
BoundaryWhenMinsupNotNegative ==
    /\ pc \notin {"idle", "start"} => n = Len(file)
    /\ (pc = "done" /\ minsup[1] >= 0) =>
        \A X \in Itemsets(ItemsOfFile) :
            /\ SupportEqual(X) => X \notin Range(F_k)
            /\ SupportAbove(X) => X \in Range(F_k)

\* C3: in every state of a run of apriori, every itemset of k >= 2 items in
\* the accumulated levels has each of its (k-1)-subsets (one item deleted) in
\* the accumulated levels too, that is, in level k-1.
C3_DownwardClosure ==
    \A X \in Range(F_k) :
        Len(X) >= 2 => \A d \in 1..Len(X) : DropAt(X, d) \in Range(F_k)

\* A run has accumulated an itemset of three items.
C3_Witness == \E X \in Range(F_k) : Len(X) >= 3

\* C4: a call with a threshold outside (0, 1] (apriori's minsup, ap_genRules'
\* minconf) never scans the file and never returns a result.
C4_InvalidThresholdFailsFast ==
    /\ (pc \in {"start", "loop", "scan", "filter", "done"} /\ ~ValidThreshold(minsup))
        => (scans = 0 /\ pc # "done")
    /\ (pc \in {"rules_call", "rules_scan", "rules_conf", "rules_fault", "rules_done"}
            /\ ~ValidThreshold(minconf))
        => (scans = 0 /\ pc # "rules_done")

\* The confidence of candidate h, counts[f_k] / counts[h], exceeds minconf.
Confident(h) ==
    /\ CounterGet(counts, h) > 0
    /\ CounterGet(counts, f_k) * minconf[2] > minconf[1] * CounterGet(counts, h)

\* The confidence step of a call of ap_genRules is over.
AfterConfidenceStep == scans > 0 /\ pc \in {"rules_call", "rules_done", "rules_fault"}

\* C5: once the confidence step of a call is over, the candidates of H_m_plus_1
\* that were emitted and handed to the recursive call are exactly those whose
\* confidence count(f_k)/count(h) exceeds minconf.
C5_ConfidenceFilter ==
    AfterConfidenceStep =>
        \A h \in Range(H_m_plus_1) :
            /\ Confident(h) <=> h \in Range(emitted)
            /\ Confident(h) <=> (pc # "rules_fault" /\ h \in Range(H_m))

\* C6: no call of ap_genRules ends in an exception in the confidence step; a
\* candidate whose count is 0 is dropped and the call goes on.
C6_NoFaultInConfidenceStep ==
    /\ fault = "none"
    /\ pc # "rules_fault"

\* C7: every candidate candidate_gen returns has all its (k-1)-subsets in
\* F_k_minus_1.
C7_ReturnedCandidatesArePruned ==
    pc = "gen_done" =>
        \A c \in Range(C_k) : \A d \in 1..Len(c) : DropAt(c, d) \in Range(F_k_minus_1)

\* How often X occurs in the list C.
Occurrences(C, X) == Cardinality({i \in 1..Len(C) : C[i] = X})

\* X has two items or more and all its (k-1)-subsets are in F.
ClosedOver(X, F) ==
    /\ Len(X) >= 2
    /\ \A d \in 1..Len(X) : DropAt(X, d) \in Range(F)

\* C8: every strictly increasing k-itemset all of whose (k-1)-subsets are in
\* F_k_minus_1 occurs exactly once in the list candidate_gen returns.
C8_CandidateGenComplete ==
    pc = "gen_done" =>
        \A X \in Itemsets(1..GenItems) :
            ClosedOver(X, F_k_minus_1) => Occurrences(C_k, X) = 1

\* candidate_gen has returned a list holding an itemset of three items all of
\* whose 2-subsets were in its argument, next to another candidate, after the
\* pruning step removed a joined candidate.
C8_Witness ==
    /\ pc = "gen_done"
    /\ Len(C_k) >= 2
    /\ Len(C_k) < Len(JoinStep(F_k_minus_1, 1, 2))
    /\ \E X \in Range(C_k) : Len(X) = 3 /\ ClosedOver(X, F_k_minus_1)

\* C9 as stated: once candidate generation has yielded an empty C_k, the
\* miner scans the file no more.
C9_NoScanAfterEmptyCandidates ==
    [][(pc = "scan" /\ C_k = <<>>) => scans' = scans]_vars

\* C9 as amended: the file is scanned once for every pass of the while loop,
\* also when C_k is empty (the scan then counts nothing and the loop ends), so
\* a run makes 1 scan plus one scan per level k >= 2 whose F_(k-1) was not
\* empty: 1 plus the number of levels in the result.
C9_ScansPerNonEmptyLevel ==
    /\ (pc = "filter" /\ C_k = <<>>) => (count = <<>> /\ scans >= 2)
    /\ pc = "done" => scans = 1 + Cardinality(Sizes(F_k))

\* A run has ended after a scan for an empty C_k that followed a level with
\* candidates.
C9_Witness == pc = "done" /\ C_k = <<>> /\ scans >= 3

\* C10: every run of apriori reaches DONE, after at most (number of distinct
\* items + 1) levels, and returns the levels in order of increasing size.
C10_Terminates ==
    /\ (pc = "start") ~> (pc = "done")
    /\ [](level <= Cardinality(ItemsOfFile) + 1)
    /\ [](pc = "done" =>
            \A i, j \in 1..Len(F_k) : i < j => Len(F_k[i]) <= Len(F_k[j]))

\* A run has ended at the last level the items allow, with three levels
\* in its result.
C10_Witness ==
    /\ pc = "done"
    /\ level = Cardinality(ItemsOfFile) + 1
    /\ Cardinality(Sizes(F_k)) >= 3

\* The items of s are distinct and in strictly increasing order.
StrictlyIncreasing(s) == \A i \in 1..(Len(s) - 1) : s[i] < s[i + 1]

\* C11: in every state, every candidate the join step makes of F_k_minus_1,
\* every itemset of C_k, every itemset of a level F_k_minus_1 and every itemset
\* of the accumulated result F_k is a strictly increasing sequence of items.
C11_ItemsetsStrictlyIncreasing ==
    \A X \in Range(JoinStep(F_k_minus_1, 1, 2)) \cup Range(C_k)
              \cup Range(F_k_minus_1) \cup Range(F_k) :
        StrictlyIncreasing(X)

\* A run has made candidates of three items from a level in which an itemset
\* with the larger last item stands before the one it is joined with.
C11_Witness ==
    /\ pc = "scan"
    /\ \E X \in Range(C_k) : Len(X) = 3
    /\ \E i, j \in 1..Len(F_k_minus_1) :
          /\ i < j
          /\ Front(F_k_minus_1[i]) = Front(F_k_minus_1[j])
          /\ Last(F_k_minus_1[i]) > Last(F_k_minus_1[j])

=============================================================================
